---- MODULE Spec2Model ----
(***************************************************************************)
(* Filing pipeline state machine of cer_scraper: the filing store          *)
(* (db/state.py, db/models.py) and the download, extraction and analysis   *)
(* orchestrators (downloader/, extractor/, analyzer/ __init__.py).         *)
(*                                                                         *)
(* db   is the committed content of the database,                          *)
(* sess is what the SQLAlchemy session holds (ORM objects, uncommitted     *)
(*      mutations included); commit copies sess to db, rollback copies db  *)
(*      to sess,                                                           *)
(* disk is the per-filing directory under filings_dir.                     *)
(* An orchestrator run is split at its control points: the eligibility     *)
(* query, the start of one filing, each document of the per-item           *)
(* operation, the status write after it, the recovery handler, the return. *)
(***************************************************************************)
EXTENDS Integers, Sequences, FiniteSets, TLC

\* ---------------------------------------------------------------- bounds
MaxFilings == 2
MaxDocuments == 2
MaxRetryCeiling == 2
MaxApiCalls == 3
MaxPages == 3
MaxCharsPerPage == 60
MaxRepeats == 202
MaxFetches == 4
MaxPadding == 203
MaxFixedFilings == 1

\* ------------------------------------------------------ program constants
ExtractMaxRetries == 3
AnalyzeMaxRetries == 3
MinContentFloor == 100
RepetitionThreshold == 200
RepetitionSample == 10000
RepetitionTop == 10
StopAfterAttempt == 3

NULL == "NULL"
NoFiling == 0
FilingIds == 1..MaxFilings
VALID_STEPS == {"scraped", "downloaded", "extracted", "analyzed", "emailed"}
Stages == {"download", "extract", "analyze"}

\* step names a caller may pass: the five of VALID_STEPS and the spec's name of
\* the fifth stage, which the code does not know
StepNames == VALID_STEPS \cup {"notified"}

VARIABLES
    max_retry_count,  \* PipelineSettings.max_retry_count of this deployment
    db,               \* committed rows: filing_id -> Filing (with its documents)
    sess,             \* the session's view of the same rows
    disk,             \* filing_id -> the filing's directory on disk
    pc,               \* "idle" | "loop" | "item" | "settle" | "except"
    stage,            \* the orchestrator that is running, or "none"
    filings,          \* the list the eligibility query returned to this run
    queue,            \* filings returned by the eligibility query, not yet started
    cur,              \* the filing being processed, or NoFiling
    idx,              \* 1-based position in the document loop
    op,               \* locals and result of the per-item operation
    batch,            \* the BatchResult being accumulated
    ret,              \* "none" | "running" | "returned" | "raised": how the last call of an entry point ended
    call              \* the last direct call of a library function: its arguments and how it ended

vars ==
    <<max_retry_count, db, sess, disk, pc, stage, filings, queue, cur, idx, op, batch, ret, call>>

\* ------------------------------------------------------------ data model
NewDocument ==
    [download_status |-> "pending", local_path |-> NULL,
     extraction_status |-> "pending", extracted_text |-> NULL]

Filing(n) ==
    [status_scraped |-> "pending", status_downloaded |-> "pending",
     status_extracted |-> "pending", status_analyzed |-> "pending",
     status_emailed |-> "pending", error_message |-> NULL, retry_count |-> 0,
     analysis_json |-> NULL, documents |-> [i \in 1..n |-> NewDocument]]

EmptyDir == [dir |-> FALSE, pdfs |-> {}, mds |-> {}, analysis |-> FALSE]

NewBatch == [attempted |-> 0, succeeded |-> 0, failed |-> 0, skipped |-> 0, errors |-> <<>>]

\* ok, bad: success_count / pdf_count and fail_count; done: the documents the
\* stage's primitive has handled successfully in this call; typed: the
\* result.error values the primitive has returned in this call; waits: the calls
\* of wait_between_requests made in this call; success, error, skipped: the
\* tuple the operation returns
NoOp ==
    [ok |-> 0, bad |-> 0, done |-> {}, typed |-> {}, waits |-> 0,
     success |-> FALSE, error |-> NULL, skipped |-> FALSE]

Range(s) == {s[i] : i \in DOMAIN s}

RECURSIVE CountDocuments(_, _)
CountDocuments(s, F) ==
    IF F = {} THEN 0
    ELSE LET f == CHOOSE x \in F : TRUE IN Len(s[f].documents) + CountDocuments(s, F \ {f})

\* rows of the documents table
DocumentRows(s) == CountDocuments(s, DOMAIN s)

\* the rows of S in the order a table scan returns them (ascending primary key)
RECURSIVE InKeyOrder(_)
InKeyOrder(S) ==
    IF S = {} THEN <<>>
    ELSE LET m == CHOOSE x \in S : \A y \in S : x <= y IN <<m>> \o InKeyOrder(S \ {m})

StatusField(step) ==
    CASE step = "scraped" -> "status_scraped"
      [] step = "downloaded" -> "status_downloaded"
      [] step = "extracted" -> "status_extracted"
      [] step = "analyzed" -> "status_analyzed"
      [] step = "emailed" -> "status_emailed"

StepOf(s) ==
    CASE s = "download" -> "downloaded"
      [] s = "extract" -> "extracted"
      [] s = "analyze" -> "analyzed"

NoCall ==
    [n |-> 0, fn |-> "none", filing_id |-> NoFiling, step |-> NULL, status |-> NULL,
     error |-> NULL, raised |-> NULL]

\* ---------------------------------------------------------- filing store
\* create_filing without status_scraped="success"
create_filing_pending(s, filing_id, n) ==
    IF filing_id \in DOMAIN s THEN [raised |-> "IntegrityError", session |-> s]
    ELSE [raised |-> NULL,
          session |-> [x \in DOMAIN s \cup {filing_id} |->
                          IF x = filing_id THEN Filing(n) ELSE s[x]]]

\* create_filing over a table without the unique constraint on filing_id: the
\* insert replaces what the id pointed to
create_filing_upsert(s, filing_id, n) ==
    [raised |-> NULL,
     session |-> [x \in DOMAIN s \cup {filing_id} |->
                     IF x = filing_id THEN [Filing(n) EXCEPT !.status_scraped = "success"]
                     ELSE s[x]]]

\* the rows after create_filing (with the n documents _persist_filing adds to
\* the new filing); filings.filing_id is unique, so the INSERT of an id that is
\* already there fails at the commit
create_filing(s, filing_id, n) ==
    IF filing_id \in DOMAIN s THEN [raised |-> "IntegrityError", session |-> s]
    ELSE [raised |-> NULL,
          session |-> [x \in DOMAIN s \cup {filing_id} |->
                          IF x = filing_id THEN [Filing(n) EXCEPT !.status_scraped = "success"]
                          ELSE s[x]]]

\* the download query without its "not yet downloaded" condition
get_filings_for_download_again(s, max_retries) ==
    {f \in DOMAIN s : /\ s[f].status_scraped = "success"
                      /\ s[f].retry_count < max_retries}

\* the extraction query without its prerequisite condition
get_filings_for_extraction_any(s, max_retries) ==
    {f \in DOMAIN s : /\ s[f].status_extracted # "success"
                      /\ s[f].retry_count < max_retries}

\* the extraction query with an inclusive ceiling
get_filings_for_extraction_le(s, max_retries) ==
    {f \in DOMAIN s : /\ s[f].status_downloaded = "success"
                      /\ s[f].status_extracted # "success"
                      /\ s[f].retry_count <= max_retries}

\* the download query with an inclusive ceiling
get_filings_for_download_le(s, max_retries) ==
    {f \in DOMAIN s : /\ s[f].status_scraped = "success"
                      /\ s[f].status_downloaded # "success"
                      /\ s[f].retry_count <= max_retries}

get_filings_for_download(s, max_retries) ==
    {f \in DOMAIN s : /\ s[f].status_scraped = "success"
                      /\ s[f].status_downloaded # "success"
                      /\ s[f].retry_count < max_retries}

get_filings_for_extraction(s, max_retries) ==
    {f \in DOMAIN s : /\ s[f].status_downloaded = "success"
                      /\ s[f].status_extracted # "success"
                      /\ s[f].retry_count < max_retries}

get_filings_for_analysis(s, max_retries) ==
    {f \in DOMAIN s : /\ s[f].status_extracted = "success"
                      /\ s[f].status_analyzed # "success"
                      /\ s[f].retry_count < max_retries}

\* mark_step_complete recording the error without counting the attempt
mark_step_complete_uncounted(s, filing_id, step, status, error) ==
    IF step \notin VALID_STEPS THEN [raised |-> "ValueError: Invalid step", session |-> s]
    ELSE IF filing_id \notin DOMAIN s
    THEN [raised |-> "ValueError: Filing not found", session |-> s]
    ELSE LET f1 == [s[filing_id] EXCEPT ![StatusField(step)] = status]
             f2 == IF error # NULL THEN [f1 EXCEPT !.error_message = error] ELSE f1
         IN [raised |-> NULL, session |-> [s EXCEPT ![filing_id] = f2]]

\* mark_step_complete returning silently when there is no such filing
mark_step_complete_lenient(s, filing_id, step, status, error) ==
    IF step \notin VALID_STEPS THEN [raised |-> "ValueError: Invalid step", session |-> s]
    ELSE IF filing_id \notin DOMAIN s THEN [raised |-> NULL, session |-> s]
    ELSE LET f1 == [s[filing_id] EXCEPT ![StatusField(step)] = status]
             f2 == IF error # NULL
                   THEN [f1 EXCEPT !.error_message = error, !.retry_count = @ + 1]
                   ELSE f1
         IN [raised |-> NULL, session |-> [s EXCEPT ![filing_id] = f2]]

\* mark_step_complete as it would be if a recorded success also cleared the
\* failure bookkeeping
mark_step_complete_clearing(s, filing_id, step, status, error) ==
    IF step \notin VALID_STEPS THEN [raised |-> "ValueError: Invalid step", session |-> s]
    ELSE IF filing_id \notin DOMAIN s
    THEN [raised |-> "ValueError: Filing not found", session |-> s]
    ELSE LET f1 == [s[filing_id] EXCEPT ![StatusField(step)] = status]
             f2 == IF error # NULL
                   THEN [f1 EXCEPT !.error_message = error, !.retry_count = @ + 1]
                   ELSE [f1 EXCEPT !.error_message = NULL, !.retry_count = 0]
         IN [raised |-> NULL, session |-> [s EXCEPT ![filing_id] = f2]]

\* mark_step_complete as it would be if a recorded success wiped the last error
mark_step_complete_reset(s, filing_id, step, status, error) ==
    IF step \notin VALID_STEPS THEN [raised |-> "ValueError: Invalid step", session |-> s]
    ELSE IF filing_id \notin DOMAIN s
    THEN [raised |-> "ValueError: Filing not found", session |-> s]
    ELSE LET f1 == [s[filing_id] EXCEPT ![StatusField(step)] = status]
             f2 == IF error # NULL
                   THEN [f1 EXCEPT !.error_message = error, !.retry_count = @ + 1]
                   ELSE IF status = "success" THEN [f1 EXCEPT !.error_message = NULL]
                   ELSE f1
         IN [raised |-> NULL, session |-> [s EXCEPT ![filing_id] = f2]]

\* the rows as mark_step_complete leaves them for its commit; raised names the
\* exception of an early exit
mark_step_complete(s, filing_id, step, status, error) ==
    IF step \notin VALID_STEPS THEN [raised |-> "ValueError: Invalid step", session |-> s]
    ELSE IF filing_id \notin DOMAIN s
    THEN [raised |-> "ValueError: Filing not found", session |-> s]
    ELSE LET f1 == [s[filing_id] EXCEPT ![StatusField(step)] = status]
             f2 == IF error # NULL
                   THEN [f1 EXCEPT !.error_message = error, !.retry_count = @ + 1]
                   ELSE f1
         IN [raised |-> NULL, session |-> [s EXCEPT ![filing_id] = f2]]

\* ------------------------------------------------------------- discovery
\* scraper._persist_filing: a new filing with its n document rows
PersistFiling ==
    /\ pc = "idle"
    /\ \E f \in FilingIds \ DOMAIN db : \E n \in 0..(MaxDocuments - DocumentRows(db)) :
         /\ sess' = create_filing(sess, f, n).session
         /\ db' = sess'
    /\ UNCHANGED <<max_retry_count, call, filings, disk, pc, stage, queue, cur, idx, op, batch, ret>>

\* ------------------------------------------------- orchestrator skeleton
DownloadMaxRetries == max_retry_count

Eligible(s) ==
    CASE s = "download" -> get_filings_for_download(sess, DownloadMaxRetries)
      [] s = "extract" -> get_filings_for_extraction(sess, ExtractMaxRetries)
      [] s = "analyze" -> get_filings_for_analysis(sess, AnalyzeMaxRetries)

\* an outer handler that logs and lets the exception through
OuterExcept_reraise(b) == [exit |-> "raised", batch |-> b]

\* the outermost "except Exception" of an entry point: one synthetic entry, then
\* control falls through to "return batch"
OuterExcept(b) ==
    [exit |-> "returned",
     batch |-> [b EXCEPT !.errors = Append(@, <<NoFiling, "Fatal error in orchestrator">>)]]

\* where an exception that left the per-item boundary takes the run: to the
\* return statement (pc "loop" with nothing left to iterate), or out of the
\* entry point when a handler lets it through
Escape(r) ==
    IF r.exit = "returned"
    THEN /\ pc' = "loop"
         /\ batch' = r.batch
         /\ UNCHANGED <<stage, ret>>
    ELSE /\ pc' = "idle"
         /\ batch' = NewBatch
         /\ stage' = "none"
         /\ ret' = r.exit

\* entry: batch = BatchResult(); filings = get_filings_for_<stage>(...)
StartRun ==
    /\ pc = "idle"
    /\ \E s \in Stages :
         /\ Eligible(s) # {}
         /\ stage' = s
         /\ ret' = "running"
         /\ pc' = "loop"
         /\ filings' = InKeyOrder(Eligible(s))
         /\ queue' = filings'
    /\ UNCHANGED <<max_retry_count, call, db, sess, disk, cur, idx, op, batch>>

\* entry with nothing eligible: "if not filings: return batch"
StartRunEmpty ==
    /\ pc = "idle"
    /\ \E s \in Stages : Eligible(s) = {}
    /\ ret' = "returned"
    /\ UNCHANGED <<max_retry_count, call, filings, db, sess, disk, pc, stage, queue, cur, idx, op, batch>>

\* entry, but the eligibility query raises
StartRunFatal ==
    /\ pc = "idle"
    /\ \E s \in Stages :
         LET r == OuterExcept(NewBatch)
         IN IF r.exit = "returned"
            THEN /\ stage' = s
                 /\ pc' = "loop"
                 /\ batch' = r.batch
                 /\ ret' = "running"
            ELSE /\ ret' = r.exit
                 /\ UNCHANGED <<stage, pc, batch>>
    /\ UNCHANGED <<max_retry_count, call, filings, db, sess, disk, queue, cur, idx, op>>

\* "return batch": after the loop, after the outer handler
FinishRun ==
    /\ pc = "loop"
    /\ queue = <<>>
    /\ ret' = "returned"
    /\ pc' = "idle"
    /\ stage' = "none"
    /\ batch' = NewBatch
    /\ filings' = <<>>
    /\ UNCHANGED <<max_retry_count, call, db, sess, disk, queue, cur, idx, op>>

\* for filing in filings: batch.filings_attempted += 1
BeginFiling ==
    /\ pc = "loop"
    /\ queue # <<>>
    /\ cur' = Head(queue)
    /\ queue' = Tail(queue)
    /\ batch' = [batch EXCEPT !.attempted = @ + 1]
    /\ idx' = 1
    /\ op' = NoOp
    /\ pc' = "item"
    /\ UNCHANGED <<max_retry_count, call, filings, db, sess, disk, stage, ret>>

\* ---------------------------------------------------------------- download
\* f"Filing {id}: document {idx}/{n} failed ({url}): {result.error}"
DocFailedMsg(k) == "document failed"

\* the cleanup left out
CleanupDir_kept(d) == d

\* shutil.rmtree(parent_dir) when parent_dir.exists()
CleanupDir(d) == IF d.dir THEN EmptyDir ELSE d

\* the reset left out
ResetDocuments_none(docs) == docs

\* the reset of the status alone
ResetDocuments_keep_path(docs) ==
    [i \in DOMAIN docs |-> [docs[i] EXCEPT !.download_status = "failed"]]

\* for d in documents: d.download_status = "failed"; d.local_path = None
ResetDocuments(docs) ==
    [i \in DOMAIN docs |-> [docs[i] EXCEPT !.download_status = "failed", !.local_path = NULL]]

\* _download_filing: "if not documents: return (True, None, 0, 0)"
DownloadNoDocuments ==
    /\ pc = "item" /\ stage = "download"
    /\ Len(sess[cur].documents) = 0
    /\ op' = [op EXCEPT !.success = TRUE]
    /\ pc' = "settle"
    /\ UNCHANGED <<max_retry_count, call, filings, db, sess, disk, stage, queue, cur, idx, batch, ret>>

\* the iteration waiting after every document it has downloaded
DownloadDocOk_every ==
    /\ pc = "item" /\ stage = "download"
    /\ idx <= Len(sess[cur].documents)
    /\ disk' = [disk EXCEPT ![cur].dir = TRUE, ![cur].pdfs = @ \cup {idx}]
    /\ sess' = [sess EXCEPT ![cur].documents[idx].local_path = "doc.pdf",
                            ![cur].documents[idx].download_status = "success"]
    /\ op' = [op EXCEPT !.ok = @ + 1, !.done = @ \cup {idx}, !.waits = @ + 1]
    /\ idx' = idx + 1
    /\ UNCHANGED <<max_retry_count, call, filings, db, pc, stage, queue, cur, batch, ret>>

\* one iteration whose download_pdf succeeds: the document row is updated, then
\* "if idx < len(documents): wait_between_requests(...)"
DownloadDocOk ==
    /\ pc = "item" /\ stage = "download"
    /\ idx <= Len(sess[cur].documents)
    /\ disk' = [disk EXCEPT ![cur].dir = TRUE, ![cur].pdfs = @ \cup {idx}]
    /\ sess' = [sess EXCEPT ![cur].documents[idx].local_path = "doc.pdf",
                            ![cur].documents[idx].download_status = "success"]
    /\ op' = [op EXCEPT !.ok = @ + 1, !.done = @ \cup {idx},
                        !.waits = IF idx < Len(sess[cur].documents) THEN @ + 1 ELSE @]
    /\ idx' = idx + 1
    /\ UNCHANGED <<max_retry_count, call, filings, db, pc, stage, queue, cur, batch, ret>>

\* a failed document noted, and the loop going on with the next one
DownloadDocFail_continue ==
    /\ pc = "item" /\ stage = "download"
    /\ idx <= Len(sess[cur].documents)
    /\ sess' = [sess EXCEPT ![cur].documents[idx].download_status = "failed"]
    /\ op' = [op EXCEPT !.bad = @ + 1, !.error = DocFailedMsg(idx)]
    /\ idx' = idx + 1
    /\ UNCHANGED <<max_retry_count, call, filings, db, disk, pc, stage, queue, cur, batch, ret>>

\* one iteration whose download_pdf returns success=False; the failed fetch may
\* have created the directory before it gave up
DownloadDocFail ==
    /\ pc = "item" /\ stage = "download"
    /\ idx <= Len(sess[cur].documents)
    /\ \E made \in BOOLEAN :
         disk' = [disk EXCEPT ![cur] = CleanupDir([disk[cur] EXCEPT !.dir = @ \/ made])]
    /\ sess' = [sess EXCEPT ![cur].documents = ResetDocuments(@)]
    /\ op' = [op EXCEPT !.ok = 0, !.success = FALSE, !.error = DocFailedMsg(idx)]
    /\ pc' = "settle"
    /\ UNCHANGED <<max_retry_count, call, filings, db, stage, queue, cur, idx, batch, ret>>

\* the loop ran through: return (True, None, pdf_count, total_bytes)
DownloadAllDone ==
    /\ pc = "item" /\ stage = "download"
    /\ Len(sess[cur].documents) > 0
    /\ idx > Len(sess[cur].documents)
    /\ op' = [op EXCEPT !.success = TRUE]
    /\ pc' = "settle"
    /\ UNCHANGED <<max_retry_count, call, filings, db, sess, disk, stage, queue, cur, idx, batch, ret>>

\* ---------------------------------------------------------------- extraction
\* the typed failures of extract_document (service.py)
ExtractionErrors == {"encrypted", "all_methods_failed"}

\* f"Document {idx}/{n} failed: {result.error}"
ExtractFailedMsg(k, e) == "Document " \o ToString(k) \o " failed: " \o e

\* "; ".join(error_messages)
JoinErrors(prev, msg) == IF prev = NULL THEN msg ELSE prev \o "; " \o msg

\* should_extract without the look at the file
should_extract_always(d, i) == TRUE

\* markdown.should_extract: the sidecar is missing or empty
should_extract(d, i) == i \notin d.mds

\* _extract_filing_documents: "if not documents: return (True, None, 0, 0)"
ExtractNoDocuments ==
    /\ pc = "item" /\ stage = "extract"
    /\ Len(sess[cur].documents) = 0
    /\ op' = [op EXCEPT !.success = TRUE]
    /\ pc' = "settle"
    /\ UNCHANGED <<max_retry_count, call, filings, db, sess, disk, stage, queue, cur, idx, batch, ret>>

\* A document the loop passes over with "continue":
\*   "if doc.download_status != 'success': continue"           (nothing counted)
\*   "if not should_extract(md_path): success_count += 1; continue"
\* The eligibility query admits a filing only after a successful download,
\* which leaves every document downloaded, so the first branch is never
\* taken from a reachable state.
ExtractSkip ==
    /\ pc = "item" /\ stage = "extract"
    /\ idx <= Len(sess[cur].documents)
    /\ \/ sess[cur].documents[idx].download_status # "success"
       \/ ~should_extract(disk[cur], idx)
    /\ op' = IF sess[cur].documents[idx].download_status # "success"
             THEN op
             ELSE [op EXCEPT !.ok = @ + 1]
    /\ idx' = idx + 1
    /\ UNCHANGED <<max_retry_count, call, filings, db, sess, disk, pc, stage, queue, cur, batch, ret>>

\* extract_document succeeds: the sidecar is written and the row updated
ExtractDocOk ==
    /\ pc = "item" /\ stage = "extract"
    /\ idx <= Len(sess[cur].documents)
    /\ sess[cur].documents[idx].download_status = "success"
    /\ should_extract(disk[cur], idx)
    /\ disk' = [disk EXCEPT ![cur].dir = TRUE, ![cur].mds = @ \cup {idx}]
    /\ sess' = [sess EXCEPT ![cur].documents[idx].extraction_status = "success",
                            ![cur].documents[idx].extracted_text = "text"]
    /\ op' = [op EXCEPT !.ok = @ + 1, !.done = @ \cup {idx}]
    /\ idx' = idx + 1
    /\ UNCHANGED <<max_retry_count, call, filings, db, pc, stage, queue, cur, batch, ret>>

\* extract_document returns a typed failure: the document is marked, the loop goes on
ExtractDocFail ==
    /\ pc = "item" /\ stage = "extract"
    /\ idx <= Len(sess[cur].documents)
    /\ sess[cur].documents[idx].download_status = "success"
    /\ should_extract(disk[cur], idx)
    /\ sess' = [sess EXCEPT ![cur].documents[idx].extraction_status = "failed"]
    /\ \E e \in ExtractionErrors :
         op' = [op EXCEPT !.bad = @ + 1, !.typed = @ \cup {e},
                          !.error = JoinErrors(@, ExtractFailedMsg(idx, e))]
    /\ idx' = idx + 1
    /\ UNCHANGED <<max_retry_count, call, filings, db, disk, pc, stage, queue, cur, batch, ret>>

\* the filing succeeds only if no document failed
ExtractAllDone_strict ==
    /\ pc = "item" /\ stage = "extract"
    /\ Len(sess[cur].documents) > 0
    /\ idx > Len(sess[cur].documents)
    /\ op' = [op EXCEPT !.success = (op.ok > 0 /\ op.bad = 0)]
    /\ pc' = "settle"
    /\ UNCHANGED <<max_retry_count, call, filings, db, sess, disk, stage, queue, cur, idx, batch, ret>>

\* has_any_success = success_count > 0; return
ExtractAllDone ==
    /\ pc = "item" /\ stage = "extract"
    /\ Len(sess[cur].documents) > 0
    /\ idx > Len(sess[cur].documents)
    /\ op' = [op EXCEPT !.success = (op.ok > 0)]
    /\ pc' = "settle"
    /\ UNCHANGED <<max_retry_count, call, filings, db, sess, disk, stage, queue, cur, idx, batch, ret>>

\* ------------------------------------------------------------------ analysis
\* the typed failures of analyze_filing_text that fail the filing
AnalysisErrors == {"timeout", "invalid_cli_json"}

\* assemble_filing_text: the documents that contribute text
IncludedDocuments(docs) ==
    {i \in DOMAIN docs : docs[i].extraction_status = "success" /\ docs[i].extracted_text # NULL}

\* _get_filing_dir: some document has a local_path
HasFilingDir(docs) == \E i \in DOMAIN docs : docs[i].local_path # NULL

\* _analyze_single_filing: "if included_count == 0: return (True, None, True)"
AnalyzeNothingIncluded ==
    /\ pc = "item" /\ stage = "analyze"
    /\ IncludedDocuments(sess[cur].documents) = {}
    /\ op' = [op EXCEPT !.success = TRUE, !.skipped = TRUE]
    /\ pc' = "settle"
    /\ UNCHANGED <<max_retry_count, call, filings, db, sess, disk, stage, queue, cur, idx, batch, ret>>

\* the success branch with the sidecar write unguarded: when analysis.json cannot
\* be written the filing is reported as failed and nothing is stored
AnalyzeOk_strict ==
    /\ pc = "item" /\ stage = "analyze"
    /\ IncludedDocuments(sess[cur].documents) # {}
    /\ \E written \in BOOLEAN :
         LET saved == HasFilingDir(sess[cur].documents) /\ written /\ disk[cur].dir
         IN /\ disk' = IF saved THEN [disk EXCEPT ![cur].analysis = TRUE] ELSE disk
            /\ sess' = IF saved THEN [sess EXCEPT ![cur].analysis_json = "json"] ELSE sess
            /\ op' = IF saved
                     THEN [op EXCEPT !.success = TRUE,
                                     !.done = IncludedDocuments(sess[cur].documents)]
                     ELSE [op EXCEPT !.success = FALSE, !.error = "cannot write analysis.json",
                                     !.done = IncludedDocuments(sess[cur].documents)]
    /\ pc' = "settle"
    /\ UNCHANGED <<max_retry_count, call, filings, db, stage, queue, cur, idx, batch, ret>>

\* analyze_filing_text succeeds on the text of the included documents (op.done):
\* best-effort analysis.json (an OSError of the write is logged and dropped),
\* then filing.analysis_json
AnalyzeOk ==
    /\ pc = "item" /\ stage = "analyze"
    /\ IncludedDocuments(sess[cur].documents) # {}
    /\ \E written \in BOOLEAN :
         disk' = IF HasFilingDir(sess[cur].documents) /\ written /\ disk[cur].dir
                 THEN [disk EXCEPT ![cur].analysis = TRUE]
                 ELSE disk
    /\ sess' = [sess EXCEPT ![cur].analysis_json = "json"]
    /\ op' = [op EXCEPT !.success = TRUE, !.done = IncludedDocuments(sess[cur].documents)]
    /\ pc' = "settle"
    /\ UNCHANGED <<max_retry_count, call, filings, db, stage, queue, cur, idx, batch, ret>>

\* "if result.error == 'insufficient_text': return (True, None, True)"
AnalyzeInsufficientText ==
    /\ pc = "item" /\ stage = "analyze"
    /\ IncludedDocuments(sess[cur].documents) # {}
    /\ op' = [op EXCEPT !.success = TRUE, !.skipped = TRUE, !.typed = {"insufficient_text"}]
    /\ pc' = "settle"
    /\ UNCHANGED <<max_retry_count, call, filings, db, sess, disk, stage, queue, cur, idx, batch, ret>>

\* any other typed failure: return (False, result.error, False)
AnalyzeFail ==
    /\ pc = "item" /\ stage = "analyze"
    /\ IncludedDocuments(sess[cur].documents) # {}
    /\ \E e \in AnalysisErrors : op' = [op EXCEPT !.success = FALSE, !.error = e, !.typed = {e}]
    /\ pc' = "settle"
    /\ UNCHANGED <<max_retry_count, call, filings, db, sess, disk, stage, queue, cur, idx, batch, ret>>

\* ------------------------------------------ after the per-item operation
\* the status write with a fixed message per stage in place of the returned error
SettleError_generic(s, o) ==
    CASE s = "download" -> o.error
      [] s = "extract" -> "No documents successfully extracted"
      [] s = "analyze" -> "Analysis failed"

\* the error= argument of the "failed" status write
SettleError(s, o) ==
    CASE s = "download" -> o.error
      [] s = "extract" -> IF o.error # NULL THEN o.error ELSE "No documents successfully extracted"
      [] s = "analyze" -> IF o.error # NULL THEN o.error ELSE "Analysis failed"

DownloadTally(b, o, f) ==
    IF o.success
    THEN [b EXCEPT !.succeeded = @ + 1]
    ELSE [b EXCEPT !.failed = @ + 1,
                   !.errors = Append(@, <<f, IF o.error # NULL THEN o.error ELSE "Unknown error">>)]

ExtractTally(b, o, f) ==
    IF o.success
    THEN [b EXCEPT !.succeeded = @ + 1]
    ELSE [b EXCEPT !.failed = @ + 1, !.errors = Append(@, <<f, SettleError("extract", o)>>)]

\* the skip branch counted with the successes
AnalyzeTally_succeeded(b, o, f) ==
    IF o.success THEN [b EXCEPT !.succeeded = @ + 1]
    ELSE [b EXCEPT !.failed = @ + 1, !.errors = Append(@, <<f, SettleError("analyze", o)>>)]

\* analyze_filings: the skipped, success and failed branches of the loop body
AnalyzeTally(b, o, f) ==
    IF o.success /\ o.skipped THEN [b EXCEPT !.skipped = @ + 1]
    ELSE IF o.success THEN [b EXCEPT !.succeeded = @ + 1]
    ELSE [b EXCEPT !.failed = @ + 1, !.errors = Append(@, <<f, SettleError("analyze", o)>>)]

Tally(s, b, o, f) ==
    CASE s = "download" -> DownloadTally(b, o, f)
      [] s = "extract" -> ExtractTally(b, o, f)
      [] s = "analyze" -> AnalyzeTally(b, o, f)

\* the status write flushed to the session but left uncommitted
SettleCommit_flush ==
    /\ pc = "settle"
    /\ LET r == mark_step_complete(sess, cur, StepOf(stage),
                                   IF op.success THEN "success" ELSE "failed",
                                   IF op.success THEN NULL ELSE SettleError(stage, op))
       IN /\ r.raised = NULL
          /\ sess' = r.session
          /\ db' = db
    /\ batch' = Tally(stage, batch, op, cur)
    /\ pc' = "loop"
    /\ cur' = NoFiling
    /\ idx' = 0
    /\ op' = NoOp
    /\ UNCHANGED <<max_retry_count, call, filings, disk, stage, queue, ret>>

\* the status write of the normal path with its commit, then the counters
SettleCommit ==
    /\ pc = "settle"
    /\ LET r == mark_step_complete(sess, cur, StepOf(stage),
                                   IF op.success THEN "success" ELSE "failed",
                                   IF op.success THEN NULL ELSE SettleError(stage, op))
       IN /\ r.raised = NULL
          /\ sess' = r.session
          /\ db' = r.session
    /\ batch' = Tally(stage, batch, op, cur)
    /\ pc' = "loop"
    /\ cur' = NoFiling
    /\ idx' = 0
    /\ op' = NoOp
    /\ UNCHANGED <<max_retry_count, call, filings, disk, stage, queue, ret>>

\* the status write raises (lookup or commit fails): nothing is committed
SettleRaise ==
    /\ pc = "settle"
    /\ pc' = "except"
    /\ idx' = 0
    /\ op' = NoOp
    /\ UNCHANGED <<max_retry_count, call, filings, db, sess, disk, stage, queue, cur, batch, ret>>

\* the per-item operation raises an unexpected exception
ItemRaise ==
    /\ pc = "item"
    /\ pc' = "except"
    /\ idx' = 0
    /\ op' = NoOp
    /\ UNCHANGED <<max_retry_count, call, filings, db, sess, disk, stage, queue, cur, batch, ret>>

\* the recovery write without an error= argument
UnexpectedMsg_none(s) == NULL

\* the error= argument of the recovery handler's "failed" status write
UnexpectedMsg(s) ==
    IF s = "download" THEN "Unexpected error during download" ELSE "Unexpected error"

\* the recovery handler noting the error without counting the filing
UnexpectedTally_uncounted(b, f) ==
    [b EXCEPT !.errors = Append(@, <<f, "unexpected error">>)]

\* batch.filings_failed += 1; batch.errors.append("Filing ...: unexpected error")
UnexpectedTally(b, f) ==
    [b EXCEPT !.failed = @ + 1, !.errors = Append(@, <<f, "unexpected error">>)]

\* the recovery handler without session.rollback(): the failed status is
\* committed together with whatever the operation had changed before it raised
Recover_norollback ==
    /\ pc = "except"
    /\ \E written \in BOOLEAN :
         LET r == mark_step_complete(sess, cur, StepOf(stage), "failed", UnexpectedMsg(stage))
         IN IF written /\ r.raised = NULL
            THEN sess' = r.session /\ db' = r.session
            ELSE sess' = db /\ db' = db
    /\ batch' = UnexpectedTally(batch, cur)
    /\ pc' = "loop"
    /\ cur' = NoFiling
    /\ idx' = 0
    /\ op' = NoOp
    /\ UNCHANGED <<max_retry_count, call, filings, disk, stage, queue, ret>>

\* the recovery handler as it would be with "break" in place of falling through
\* to the next iteration
Recover_abort ==
    /\ pc = "except"
    /\ \E written \in BOOLEAN :
         LET r == mark_step_complete(db, cur, StepOf(stage), "failed", UnexpectedMsg(stage))
         IN IF written /\ r.raised = NULL
            THEN sess' = r.session /\ db' = r.session
            ELSE sess' = db /\ db' = db
    /\ batch' = UnexpectedTally(batch, cur)
    /\ pc' = "loop"
    /\ queue' = <<>>
    /\ cur' = NoFiling
    /\ idx' = 0
    /\ op' = NoOp
    /\ UNCHANGED <<max_retry_count, call, filings, disk, stage, ret>>

\* "except Exception:" of the per-item boundary: session.rollback(), then the
\* failed status write, itself guarded
Recover ==
    /\ pc = "except"
    /\ \E written \in BOOLEAN :
         LET r == mark_step_complete(db, cur, StepOf(stage), "failed", UnexpectedMsg(stage))
         IN IF written /\ r.raised = NULL
            THEN sess' = r.session /\ db' = r.session
            ELSE sess' = db /\ db' = db
    /\ batch' = UnexpectedTally(batch, cur)
    /\ pc' = "loop"
    /\ cur' = NoFiling
    /\ idx' = 0
    /\ op' = NoOp
    /\ UNCHANGED <<max_retry_count, call, filings, disk, stage, queue, ret>>

\* the store is gone: the recovery write fails and so does the reload of the
\* expired filing for the errors entry, which is outside the inner try
RecoverFatal ==
    /\ pc = "except"
    /\ sess' = db
    /\ Escape(OuterExcept([batch EXCEPT !.failed = @ + 1]))
    /\ queue' = <<>>
    /\ cur' = NoFiling
    /\ idx' = 0
    /\ op' = NoOp
    /\ UNCHANGED <<max_retry_count, call, filings, db, disk>>

\* ------------------------------------------------------------ specification
Init ==
    /\ max_retry_count \in 1..MaxRetryCeiling
    /\ db = <<>>
    /\ sess = <<>>
    /\ disk = [f \in FilingIds |-> EmptyDir]
    /\ pc = "idle"
    /\ stage = "none"
    /\ filings = <<>>
    /\ queue = <<>>
    /\ cur = NoFiling
    /\ idx = 0
    /\ op = NoOp
    /\ batch = NewBatch
    /\ ret = "none"
    /\ call = NoCall

Next ==
    \/ PersistFiling
    \/ StartRun
    \/ StartRunEmpty
    \/ StartRunFatal
    \/ FinishRun
    \/ BeginFiling
    \/ DownloadNoDocuments
    \/ DownloadDocOk
    \/ DownloadDocFail
    \/ DownloadAllDone
    \/ ExtractNoDocuments
    \/ ExtractSkip
    \/ ExtractDocOk
    \/ ExtractDocFail
    \/ ExtractAllDone
    \/ AnalyzeNothingIncluded
    \/ AnalyzeOk
    \/ AnalyzeInsufficientText
    \/ AnalyzeFail
    \/ SettleCommit
    \/ SettleRaise
    \/ ItemRaise
    \/ Recover
    \/ RecoverFatal

Spec == Init /\ [][Next]_vars

\* the orchestrators under the one setting that gives them a common ceiling:
\* max_retry_count equal to the 3 that extraction and analysis pass
CommonCeilingInit ==
    /\ max_retry_count = ExtractMaxRetries
    /\ max_retry_count = AnalyzeMaxRetries
    /\ db = <<>>
    /\ sess = <<>>
    /\ disk = [f \in FilingIds |-> EmptyDir]
    /\ pc = "idle"
    /\ stage = "none"
    /\ filings = <<>>
    /\ queue = <<>>
    /\ cur = NoFiling
    /\ idx = 0
    /\ op = NoOp
    /\ batch = NewBatch
    /\ ret = "none"
    /\ call = NoCall

SpecCommonCeiling == CommonCeilingInit /\ [][Next]_vars

\* ----------------------------------------- repeated runs over a fixed set of filings
\* the stores discovery can have left behind: filings as create_filing and
\* _persist_filing made them, nothing downloaded yet
FixedStores ==
    {s \in UNION {[1..k -> {[Filing(n) EXCEPT !.status_scraped = "success"] :
                               n \in 0..MaxDocuments}] : k \in 1..MaxFixedFilings} :
        DocumentRows(s) <= MaxDocuments}

FairInit ==
    /\ max_retry_count \in 1..MaxRetryCeiling
    /\ db \in FixedStores
    /\ sess = db
    /\ disk = [f \in FilingIds |-> EmptyDir]
    /\ pc = "idle"
    /\ stage = "none"
    /\ filings = <<>>
    /\ queue = <<>>
    /\ cur = NoFiling
    /\ idx = 0
    /\ op = NoOp
    /\ batch = NewBatch
    /\ ret = "none"
    /\ call = NoCall

\* the orchestrators without discovery
FairNext ==
    \/ StartRun
    \/ StartRunEmpty
    \/ StartRunFatal
    \/ FinishRun
    \/ BeginFiling
    \/ DownloadNoDocuments
    \/ DownloadDocOk
    \/ DownloadDocFail
    \/ DownloadAllDone
    \/ ExtractNoDocuments
    \/ ExtractSkip
    \/ ExtractDocOk
    \/ ExtractDocFail
    \/ ExtractAllDone
    \/ AnalyzeNothingIncluded
    \/ AnalyzeOk
    \/ AnalyzeInsufficientText
    \/ AnalyzeFail
    \/ SettleCommit
    \/ SettleRaise
    \/ ItemRaise
    \/ Recover
    \/ RecoverFatal

\* each orchestrator is called again and again by whoever drives the pipeline,
\* and a call that has started goes on to its return (there is no mid-item
\* cancellation)
RunsRepeat == \A s \in Stages : SF_vars(StartRun /\ stage' = s)

RunsProceed == WF_vars(FairNext /\ pc # "idle")

SpecFair == FairInit /\ [][FairNext]_vars /\ RunsRepeat /\ RunsProceed

\* ------------------------------------------- the store's functions, called directly
ApiErrors == {NULL, "boom"}

\* create_filing(session, filing_id) by any caller, for any id
StoreCreate ==
    /\ call.n < MaxApiCalls
    /\ \E f \in FilingIds :
         LET r == create_filing(db, f, 0)
         IN /\ db' = r.session
            /\ sess' = r.session
            /\ call' = [NoCall EXCEPT !.n = call.n + 1, !.fn = "create_filing",
                                      !.filing_id = f, !.raised = r.raised]
    /\ UNCHANGED <<max_retry_count, disk, pc, stage, filings, queue, cur, idx, op, batch, ret>>

\* scraper._persist_filing for any id, one a batch has carried before included:
\* an exception is caught, the session rolled back and False returned
StorePersist ==
    /\ call.n < MaxApiCalls
    /\ \E f \in FilingIds : \E n \in 0..(MaxDocuments - DocumentRows(db)) :
         LET r == create_filing(db, f, n)
         IN /\ db' = r.session
            /\ sess' = r.session
            /\ call' = [NoCall EXCEPT !.n = call.n + 1, !.fn = "_persist_filing",
                                      !.filing_id = f,
                                      !.status = IF r.raised = NULL THEN "True" ELSE "False"]
    /\ UNCHANGED <<max_retry_count, disk, pc, stage, filings, queue, cur, idx, op, batch, ret>>

\* mark_step_complete(session, filing_id, step, status, error) by any caller
StoreMark ==
    /\ call.n < MaxApiCalls
    /\ \E f \in FilingIds, step \in StepNames, status \in {"success", "failed"},
          error \in ApiErrors :
         LET r == mark_step_complete(sess, f, step, status, error)
         IN /\ sess' = IF r.raised = NULL THEN r.session ELSE sess
            /\ db' = IF r.raised = NULL THEN r.session ELSE db
            /\ call' = [n |-> call.n + 1, fn |-> "mark_step_complete", filing_id |-> f,
                        step |-> step, status |-> status, error |-> error,
                        raised |-> r.raised]
    /\ UNCHANGED <<max_retry_count, disk, pc, stage, filings, queue, cur, idx, op, batch, ret>>

StoreNext ==
    \/ StoreCreate
    \/ StorePersist
    \/ StoreMark

SpecStore == Init /\ [][StoreNext]_vars

\* ------------------------------------------------- extraction quality gate
\* min_chars = max(100, page_count * settings.min_chars_per_page)
MinChars(page_count, min_chars_per_page) ==
    IF page_count * min_chars_per_page > MinContentFloor
    THEN page_count * min_chars_per_page
    ELSE MinContentFloor

\* the check with "must exceed" taken literally
MinimumContentCheck_exceed(char_count, page_count, min_chars_per_page) ==
    ~(char_count <= MinChars(page_count, min_chars_per_page))

\* passes_quality_check, check 1: "if result.char_count < min_chars: return False"
MinimumContentCheck(char_count, page_count, min_chars_per_page) ==
    ~(char_count < MinChars(page_count, min_chars_per_page))

\* an extraction result of char_count meaningful characters from a PDF of
\* page_count pages, about to be checked under a min_chars_per_page setting
GateInputs ==
    [fn : {"passes_quality_check"}, returned : {FALSE}, passed : {FALSE},
     page_count : 1..MaxPages,
     min_chars_per_page : 0..MaxCharsPerPage,
     char_count : 0..(MaxPages * MaxCharsPerPage + 1)]

GateCheck ==
    /\ call.fn = "passes_quality_check"
    /\ ~call.returned
    /\ call' = [call EXCEPT !.returned = TRUE,
                            !.passed = MinimumContentCheck(call.char_count, call.page_count,
                                                           call.min_chars_per_page)]
    /\ UNCHANGED <<max_retry_count, db, sess, disk, pc, stage, filings, queue, cur, idx, op,
                   batch, ret>>

GateInit ==
    /\ max_retry_count = 1
    /\ db = <<>>
    /\ sess = <<>>
    /\ disk = [f \in FilingIds |-> EmptyDir]
    /\ pc = "idle"
    /\ stage = "none"
    /\ filings = <<>>
    /\ queue = <<>>
    /\ cur = NoFiling
    /\ idx = 0
    /\ op = NoOp
    /\ batch = NewBatch
    /\ ret = "none"
    /\ call \in GateInputs

GateNext == GateCheck

SpecGate == GateInit /\ [][GateNext]_vars

\* ------------------------------------------ quality gate: repetition check
\* the state of everything but call while a library function is called on
\* arguments drawn from inputs
CalledOn(inputs) ==
    /\ max_retry_count = 1
    /\ db = <<>>
    /\ sess = <<>>
    /\ disk = [f \in FilingIds |-> EmptyDir]
    /\ pc = "idle"
    /\ stage = "none"
    /\ filings = <<>>
    /\ queue = <<>>
    /\ cur = NoFiling
    /\ idx = 0
    /\ op = NoOp
    /\ batch = NewBatch
    /\ ret = "none"
    /\ call \in inputs

\* characters of a text; " " stands for whitespace (\s), the others for \S
Chars == {"a", "b", " "}

\* the characters re's \S does not match, as far as texts here hold them
Whitespace == {" ", "\n", "\t"}

\* s * n
Repeat(s, n) == [i \in 1..(Len(s) * n) |-> s[((i - 1) % Len(s)) + 1]]

\* sample = result.markdown[:10_000]
Sample(markdown) ==
    IF Len(markdown) > RepetitionSample THEN SubSeq(markdown, 1, RepetitionSample)
    ELSE markdown

\* Counter(trigrams).most_common(10): the trigrams of the sample (none when
\* len(sample) < 3) ranked by count, ties in order of first occurrence, and the
\* first ten of that ranking
MostCommonTrigrams(sample) ==
    LET starts == 1..(Len(sample) - 2)
        at(i) == SubSeq(sample, i, i + 2)
        trigrams == {at(i) : i \in starts}
        count == [g \in trigrams |-> Cardinality({i \in starts : at(i) = g})]
        first == [g \in trigrams |-> CHOOSE i \in starts :
                                        at(i) = g /\ \A j \in starts : at(j) = g => i <= j]
        before(g) == {h \in trigrams : \/ count[h] > count[g]
                                        \/ (count[h] = count[g] /\ first[h] < first[g])}
    IN {[trigram |-> g, count |-> count[g]] : g \in {h \in trigrams :
                                                     Cardinality(before(h)) < RepetitionTop}}

\* the check rejecting a trigram from its 200th occurrence on
RepetitionCheck_from(markdown) ==
    ~\E m \in MostCommonTrigrams(Sample(markdown)) :
        /\ m.count >= RepetitionThreshold
        /\ \E k \in 1..3 : m.trigram[k] \notin Whitespace

\* passes_quality_check, check 3: False when one of the ten most common
\* trigrams of the sample occurs more than 200 times and holds a \S character
RepetitionCheck(markdown) ==
    ~\E m \in MostCommonTrigrams(Sample(markdown)) :
        /\ m.count > RepetitionThreshold
        /\ \E k \in 1..3 : m.trigram[k] \notin Whitespace

\* a text made of one 3-character sequence s repeated `repeats` times
RepetitionInputs ==
    [fn : {"passes_quality_check.repetition"}, returned : {FALSE}, passed : {FALSE},
     s : [1..3 -> Chars],
     repeats : (RepetitionThreshold - 2)..MaxRepeats]

GateRepetition ==
    /\ call.fn = "passes_quality_check.repetition"
    /\ ~call.returned
    /\ call' = [call EXCEPT !.returned = TRUE,
                            !.passed = RepetitionCheck(Repeat(call.s, call.repeats))]
    /\ UNCHANGED <<max_retry_count, db, sess, disk, pc, stage, filings, queue, cur, idx, op,
                   batch, ret>>

\* ten whitespace characters whose ten cyclic 3-character windows all differ
BlankCycle == <<" ", " ", " ", "\n", " ", " ", "\t", " ", "\n", "\t">>

\* a text that opens with `pad` rounds of blank lines and indentation and goes
\* on with s repeated n times
Padded(pad, s, n) == Repeat(BlankCycle, pad) \o Repeat(s, n)

RepetitionPaddedInputs ==
    [fn : {"passes_quality_check.repetition_padded"}, returned : {FALSE}, passed : {FALSE},
     s : [1..3 -> Chars],
     repeats : RepetitionThreshold..MaxRepeats,
     pad : {0, MaxPadding}]

\* check 3 of passes_quality_check on a padded text
GateRepetitionPadded ==
    /\ call.fn = "passes_quality_check.repetition_padded"
    /\ ~call.returned
    /\ call' = [call EXCEPT !.returned = TRUE,
                            !.passed = RepetitionCheck(Padded(call.pad, call.s, call.repeats))]
    /\ UNCHANGED <<max_retry_count, db, sess, disk, pc, stage, filings, queue, cur, idx, op,
                   batch, ret>>

RepetitionPaddedInit == CalledOn(RepetitionPaddedInputs)

RepetitionPaddedNext == GateRepetitionPadded

SpecRepetitionPadded == RepetitionPaddedInit /\ [][RepetitionPaddedNext]_vars

RepetitionInit == CalledOn(RepetitionInputs)

RepetitionNext == GateRepetition

SpecRepetition == RepetitionInit /\ [][RepetitionNext]_vars

\* ------------------------------------------------ extraction tier cascade
\* ExtractionMethod of the three tiers, in the order extract_document calls them
Tiers == <<"pymupdf4llm", "pdfplumber", "tesseract">>

\* ExtractionResult(success=False, method=FAILED, page_count=..., error=...)
Failure(page_count, error) ==
    [success |-> FALSE, method |-> "failed", markdown |-> "", page_count |-> page_count,
     error |-> error]

\* the result object a tier returned, with "result.page_count = page_count"
TierResult(k, o, page_count) ==
    [success |-> o.success, method |-> IF o.success THEN Tiers[k] ELSE "failed",
     markdown |-> o.markdown, page_count |-> page_count,
     error |-> IF o.success THEN NULL ELSE "tier failed"]

\* only the open is checked before the tiers
PreCheck_open_only(doc, settings) ==
    IF ~doc.opens THEN <<Failure(0, "cannot_open: " \o "no such file")>> ELSE <<>>

\* the pre-checks of extract_document: the failure they return, if any
PreCheck(doc, settings) ==
    IF ~doc.opens THEN <<Failure(0, "cannot_open: " \o "no such file")>>
    ELSE IF doc.needs_pass THEN <<Failure(0, "encrypted")>>
    ELSE IF doc.page_count > settings.max_pages_for_extraction
    THEN <<Failure(doc.page_count, "too_many_pages (" \o ToString(doc.page_count) \o ")")>>
    ELSE <<>>

\* a tier is accepted on its own word
TierPasses_nogate(o) == o.success

\* "if result.success and passes_quality_check(result, page_count, settings)"
\* (passes_ocr_quality_check for tier 3); gate is what the check returns for
\* the tier's output
TierPasses(o) == o.success /\ o.gate

\* OCR only below the limit
OcrAllowed_lt(page_count, settings) == page_count < settings.max_pages_for_ocr

\* "if page_count > settings.max_pages_for_ocr: (skip) else: (tier 3)"
OcrAllowed(page_count, settings) == ~(page_count > settings.max_pages_for_ocr)

\* extract_document(pdf_path, settings): the result it returns and the tiers it
\* has called, in order; tiers[k] is what tier k does with this document
extract_document(doc, settings, tiers) ==
    LET pre == PreCheck(doc, settings)
        n == doc.page_count
    IN IF pre # <<>> THEN [result |-> pre[1], invoked |-> <<>>]
       ELSE IF TierPasses(tiers[1])
       THEN [result |-> TierResult(1, tiers[1], n), invoked |-> <<1>>]
       ELSE IF TierPasses(tiers[2])
       THEN [result |-> TierResult(2, tiers[2], n), invoked |-> <<1, 2>>]
       ELSE IF ~OcrAllowed(n, settings)
       THEN [result |-> Failure(n, "all_methods_failed"), invoked |-> <<1, 2>>]
       ELSE IF TierPasses(tiers[3])
       THEN [result |-> TierResult(3, tiers[3], n), invoked |-> <<1, 2, 3>>]
       ELSE [result |-> Failure(n, "all_methods_failed"), invoked |-> <<1, 2, 3>>]

\* what a tier may do: fail, or produce text that its quality gate accepts or not
TierOutcomes(k) ==
    {[success |-> FALSE, gate |-> FALSE, markdown |-> ""]}
        \cup [success : {TRUE}, gate : BOOLEAN, markdown : {"text of " \o Tiers[k]}]

ExtractDocumentInputs ==
    [fn : {"extract_document"}, returned : {FALSE},
     doc : [opens : BOOLEAN, needs_pass : BOOLEAN, page_count : 1..MaxPages],
     settings : [max_pages_for_extraction : 1..MaxPages, max_pages_for_ocr : 1..MaxPages],
     tiers : {<<a, b, c>> : a \in TierOutcomes(1), b \in TierOutcomes(2), c \in TierOutcomes(3)},
     result : {Failure(0, NULL)}, invoked : {<<>>}]

ExtractDocumentCall ==
    /\ call.fn = "extract_document"
    /\ ~call.returned
    /\ LET r == extract_document(call.doc, call.settings, call.tiers)
       IN call' = [call EXCEPT !.returned = TRUE, !.result = r.result, !.invoked = r.invoked]
    /\ UNCHANGED <<max_retry_count, db, sess, disk, pc, stage, filings, queue, cur, idx, op,
                   batch, ret>>

ExtractDocumentInit == CalledOn(ExtractDocumentInputs)

ExtractDocumentNext == ExtractDocumentCall

SpecExtractDocument == ExtractDocumentInit /\ [][ExtractDocumentNext]_vars

\* --------------------------------------------------- download_pdf (service.py)
\* what one run of the body of _download_with_retry may come to
FetchOutcomes ==
    {"ok", "http_status_error", "transport_error", "html", "content_length_too_large",
     "stream_too_large", "other_exception"}

\* every failure is retried
Transient_any == FetchOutcomes \ {"ok"}

\* retry_if_exception_type((httpx.HTTPStatusError, httpx.TransportError)); the
\* body re-raises exactly these two
Transient == {"http_status_error", "transport_error"}

\* the DownloadResult the body returns when it does not raise
AttemptResult(o) ==
    CASE o = "ok" -> [success |-> TRUE, error |-> NULL]
      [] o = "html" -> [success |-> FALSE, error |-> "Response is HTML, not a PDF binary"]
      [] o = "content_length_too_large" ->
            [success |-> FALSE, error |-> "PDF exceeds max size limit"]
      [] o = "stream_too_large" ->
            [success |-> FALSE, error |-> "PDF exceeds max size limit during streaming"]
      [] o = "other_exception" -> [success |-> FALSE, error |-> "Unexpected error downloading"]

\* a call of download_pdf; outcomes[k] is what the k-th run of the body would
\* come to, attempts counts the runs made
DownloadPdfInputs ==
    [fn : {"download_pdf"}, returned : {FALSE}, attempts : {0},
     outcomes : [1..MaxFetches -> FetchOutcomes],
     result : {[success |-> FALSE, error |-> NULL]}, raised : {NULL}]

\* a run of the body that returns a DownloadResult: tenacity hands it on
FetchReturns ==
    /\ call.fn = "download_pdf" /\ ~call.returned
    /\ call.attempts < MaxFetches
    /\ LET o == call.outcomes[call.attempts + 1]
       IN /\ o \notin Transient
          /\ call' = [call EXCEPT !.attempts = @ + 1, !.returned = TRUE,
                                  !.result = AttemptResult(o)]
    /\ UNCHANGED <<max_retry_count, db, sess, disk, pc, stage, filings, queue, cur, idx, op,
                   batch, ret>>

\* a run of the body that raises a retried exception before stop_after_attempt
\* is reached: tenacity waits and runs the body again
FetchRetry ==
    /\ call.fn = "download_pdf" /\ ~call.returned
    /\ call.attempts < MaxFetches
    /\ call.outcomes[call.attempts + 1] \in Transient
    /\ call.attempts + 1 < StopAfterAttempt
    /\ call' = [call EXCEPT !.attempts = @ + 1]
    /\ UNCHANGED <<max_retry_count, db, sess, disk, pc, stage, filings, queue, cur, idx, op,
                   batch, ret>>

\* the run that reaches stop_after_attempt raises again: reraise=True lets the
\* exception out of _download_with_retry and download_pdf turns it into a result
FetchGivesUp ==
    /\ call.fn = "download_pdf" /\ ~call.returned
    /\ call.attempts < MaxFetches
    /\ call.outcomes[call.attempts + 1] \in Transient
    /\ call.attempts + 1 >= StopAfterAttempt
    /\ call' = [call EXCEPT !.attempts = @ + 1, !.returned = TRUE,
                            !.result = [success |-> FALSE,
                                        error |-> "Download failed after retries: "
                                                    \o call.outcomes[call.attempts + 1]]]
    /\ UNCHANGED <<max_retry_count, db, sess, disk, pc, stage, filings, queue, cur, idx, op,
                   batch, ret>>

DownloadPdfInit == CalledOn(DownloadPdfInputs)

DownloadPdfNext ==
    \/ FetchReturns
    \/ FetchRetry
    \/ FetchGivesUp

SpecDownloadPdf == DownloadPdfInit /\ [][DownloadPdfNext]_vars

\* ==================================================================== claims
Attempted == IF cur = NoFiling THEN {} ELSE {cur}

\* C1: a filing whose retry_count equals the configured max_retry_count is never
\* in the result of an eligibility query nor attempted, by any orchestrator.
C1_SharedCeiling ==
    \A f \in Range(queue) \cup Attempted : db[f].retry_count # max_retry_count

\* C2: a filing's committed retry_count never decreases, whatever step is taken
\* (status writes, commits, rollbacks, recovery writes).
C2_RetryCountMonotone ==
    [][\A f \in DOMAIN db : f \in DOMAIN db' /\ db'[f].retry_count >= db[f].retry_count]_vars

\* a filing failed twice, the second time through the rollback path
C2_Witness ==
    \E f \in DOMAIN db :
        /\ db[f].retry_count >= 2
        /\ db[f].error_message = "Unexpected error during download"

\* zero documents for the stage's operation to act on
NothingToDo(s, docs) ==
    CASE s = "download" -> Len(docs) = 0
      [] s = "extract" -> \A i \in DOMAIN docs : docs[i].download_status # "success"
      [] s = "analyze" -> IncludedDocuments(docs) = {}

\* C3: when the status write follows an operation that had zero documents to act
\* on, the filing's stage becomes success and the run counts it under skipped,
\* not under succeeded or failed.
C3_VacuousCountedSkipped ==
    [][(pc = "settle" /\ pc' = "loop" /\ op.success /\ NothingToDo(stage, db[cur].documents))
        => /\ db'[cur][StatusField(StepOf(stage))] = "success"
           /\ batch'.skipped = batch.skipped + 1
           /\ batch'.succeeded = batch.succeeded
           /\ batch'.failed = batch.failed]_vars

Downloaded(d) == d.download_status = "success" /\ d.local_path # NULL

\* C4: in every committed state, each filing's documents are either all
\* downloaded (status success, local_path set) or none of them is.
C4_AllOrNothing ==
    \A f \in DOMAIN db :
        LET docs == db[f].documents
        IN \/ \A i \in DOMAIN docs : Downloaded(docs[i])
           \/ \A i \in DOMAIN docs : docs[i].download_status # "success" /\ docs[i].local_path = NULL

\* a retry that raised after its first document: the file is on disk, the rows
\* are back at the failed state of the run before
C4_Witness ==
    \E f \in DOMAIN db :
        /\ Len(db[f].documents) = 2
        /\ db[f].error_message = "Unexpected error during download"
        /\ db[f].documents[1].download_status = "failed"
        /\ 1 \in disk[f].pdfs
        /\ pc = "idle"

ExtractedRows(docs) == {i \in DOMAIN docs : docs[i].extraction_status = "success"}

\* C6: when the status write follows _extract_filing_documents, the filing is
\* marked success if extract_document succeeded for at least one document, even
\* though it failed for others, and the rows committed with
\* extraction_status=success are exactly the documents it succeeded for.
C6_ExtractionTolerance ==
    [][(pc = "settle" /\ stage = "extract" /\ pc' = "loop")
        => /\ (op.done # {} => db'[cur].status_extracted = "success")
           /\ ExtractedRows(db'[cur].documents) = op.done]_vars

\* two documents, one extracted and one failed, committed
C6_Witness ==
    \E f \in DOMAIN db :
        /\ Len(db[f].documents) = 2
        /\ db[f].status_extracted = "success"
        /\ \E i, j \in 1..2 :
             /\ db[f].documents[i].extraction_status = "success"
             /\ db[f].documents[j].extraction_status = "failed"

\* C7: a stage is success only if its prerequisite stage is success.
C7_PrerequisiteOrder ==
    \A f \in DOMAIN db :
        /\ db[f].status_downloaded = "success" => db[f].status_scraped = "success"
        /\ db[f].status_extracted = "success" => db[f].status_downloaded = "success"
        /\ db[f].status_analyzed = "success" => db[f].status_extracted = "success"

C7_Witness ==
    \E f \in DOMAIN db : db[f].status_analyzed = "success" /\ db[f].analysis_json # NULL

\* C8: once a filing's status for a stage is success it stays success, and no
\* run of that stage starts the filing again.
C8_NoReprocessing ==
    [][\A f \in DOMAIN db : \A s \in Stages :
          db[f][StatusField(StepOf(s))] = "success"
            => /\ f \in DOMAIN db'
               /\ db'[f][StatusField(StepOf(s))] = "success"
               /\ ~(stage' = s /\ cur' = f /\ cur # f)]_vars

\* a later download run is at work on another filing while one is already done
C8_Witness ==
    /\ pc = "item" /\ stage = "download"
    /\ \E f \in DOMAIN db : f # cur /\ db[f].status_downloaded = "success"

\* C9: for every ceiling, the download and the extraction query return exactly
\* the filings whose predecessor stage is success, whose own stage is pending
\* or failed, and whose retry_count is below the ceiling.
C9_EligibilityExact ==
    \A m \in 0..(MaxRetryCeiling + 2) :
        /\ get_filings_for_download(db, m) =
             {f \in DOMAIN db : /\ db[f].status_scraped = "success"
                                /\ db[f].status_downloaded \in {"pending", "failed"}
                                /\ ~(db[f].retry_count >= m)}
        /\ get_filings_for_extraction(db, m) =
             {f \in DOMAIN db : /\ db[f].status_downloaded = "success"
                                /\ db[f].status_extracted \in {"pending", "failed"}
                                /\ ~(db[f].retry_count >= m)}

\* of two downloaded filings that failed extraction, one is still below the
\* extraction ceiling and one has reached it
C9_Witness ==
    \E f, g \in DOMAIN db :
        /\ f \in get_filings_for_extraction(db, ExtractMaxRetries)
        /\ db[f].status_extracted = "failed"
        /\ g \notin get_filings_for_extraction(db, ExtractMaxRetries)
        /\ db[g].status_downloaded = "success"
        /\ db[g].status_extracted = "failed"
        /\ db[g].retry_count = ExtractMaxRetries

Synthetic(b) == {i \in DOMAIN b.errors : b.errors[i][1] = NoFiling}

\* C10: no step leaves an entry point by an exception: every exit is a return.
\* A failure that escapes the per-item boundary appends exactly one synthetic
\* entry to errors, keeps every counter as accumulated so far (the failed count
\* of the recovery handler included) and goes straight to the return.
C10_NeverPropagates ==
    [][/\ ret' # "raised"
       /\ (pc # "idle" /\ pc' = "idle") => ret' = "returned"
       /\ Cardinality(Synthetic(batch')) > Cardinality(Synthetic(batch))
            => /\ Len(batch'.errors) = Len(batch.errors) + 1
               /\ Synthetic(batch') = {Len(batch'.errors)}
               /\ batch'.attempted = batch.attempted
               /\ batch'.succeeded = batch.succeeded
               /\ batch'.skipped = batch.skipped
               /\ batch'.failed = batch.failed + (IF pc = "except" THEN 1 ELSE 0)
               /\ pc' = "loop" /\ queue' = <<>>]_vars

\* the store fails while the second filing of a run is being recovered
C10_Witness ==
    /\ pc = "loop" /\ queue = <<>>
    /\ Cardinality(Synthetic(batch)) = 1
    /\ batch.attempted = 2 /\ batch.succeeded = 1 /\ batch.failed = 1

\* C11: in a run that no store-level failure has aborted, the filings started so
\* far are exactly the first batch.attempted entries of the list the eligibility
\* query returned, each started once and in that order, the rest of the list is
\* still queued whatever happened to the filings before, and the run returns
\* only when every entry of the list has been attempted.
C11_EveryFilingAttemptedInOrder ==
    [][/\ (pc' # "idle" /\ Synthetic(batch') = {})
            => /\ queue' = SubSeq(filings', batch'.attempted + 1, Len(filings'))
               /\ \A i, j \in DOMAIN filings' : i # j => filings'[i] # filings'[j]
               /\ pc' \in {"item", "settle", "except"} => cur' = filings'[batch'.attempted]
       /\ (pc = "loop" /\ pc' = "item") => batch'.attempted = batch.attempted + 1
       /\ (pc = "loop" /\ pc' = "idle" /\ Synthetic(batch) = {})
            => batch.attempted = Len(filings)]_vars

\* the second filing of a run is being processed after the first one raised
C11_Witness ==
    /\ pc = "item" /\ Len(filings) = 2 /\ cur = filings[2]
    /\ batch.attempted = 2 /\ batch.failed = 1
    /\ batch.errors = <<(<<filings[1], "unexpected error">>)>>

\* C12: the committed rows change only in the step that ends a filing's
\* processing (the status write or the recovery handler), only in the row of the
\* filing being processed, and that step commits everything the session holds,
\* so that nothing is uncommitted when the next filing starts; a rollback or an
\* unexpected exception leaves every other filing's committed row as it was.
C12_PerFilingCommit ==
    [][/\ (pc # "idle" /\ db' # db) => (pc \in {"settle", "except"} /\ pc' = "loop")
       /\ pc # "idle" => /\ DOMAIN db' = DOMAIN db
                         /\ \A f \in DOMAIN db : f # cur => db'[f] = db[f]
       /\ pc' = "loop" => sess' = db']_vars

\* the second filing of a download run raised and was rolled back; the first
\* one's documents and status are committed
C12_Witness ==
    /\ pc = "loop" /\ stage = "download" /\ Len(filings) = 2
    /\ batch.succeeded = 1 /\ batch.failed = 1
    /\ db[filings[1]].status_downloaded = "success"
    /\ Len(db[filings[1]].documents) = 1
    /\ Downloaded(db[filings[1]].documents[1])
    /\ db[filings[2]].error_message = "Unexpected error during download"
    /\ 1 \in disk[filings[2]].pdfs

\* C13: the recovery handler leaves the session equal to the committed rows,
\* with the filing's documents and other fields at their last committed values;
\* its status write sets status_<stage> to failed with the stage's generic
\* message and adds exactly 1 to retry_count (when the store refuses that
\* write too, the committed rows stay as they were); the failed counter grows by
\* one and errors by one entry, for this filing.
C13_UnexpectedExceptionRecovery ==
    [][(pc = "except" /\ pc' = "loop" /\ Synthetic(batch') = Synthetic(batch))
        => /\ sess' = db'
           /\ \/ db' = db
              \/ db' = [db EXCEPT ![cur] =
                          [db[cur] EXCEPT ![StatusField(StepOf(stage))] = "failed",
                                          !.error_message = UnexpectedMsg(stage),
                                          !.retry_count = @ + 1]]
           /\ batch'.failed = batch.failed + 1
           /\ batch'.attempted = batch.attempted
           /\ batch'.succeeded = batch.succeeded
           /\ batch'.skipped = batch.skipped
           /\ batch'.errors = Append(batch.errors, <<cur, "unexpected error">>)]_vars

\* extraction raised after the first document's sidecar was written: the row of
\* that document is back at pending, the filing failed with the generic message
C13_Witness ==
    \E f \in DOMAIN db :
        /\ pc = "loop" /\ stage = "extract"
        /\ db[f].status_extracted = "failed"
        /\ db[f].error_message = "Unexpected error"
        /\ db[f].retry_count = 1
        /\ 1 \in disk[f].mds
        /\ db[f].documents[1].extraction_status = "pending"
        /\ batch.errors = <<(<<f, "unexpected error">>)>>

\* C14 (as stated): whenever the stage's primitive returned a typed failure for
\* a filing, the status write records that failure verbatim as error_message
\* and adds 1 to retry_count, and nothing is raised.
C14_TypedOutcomesVerbatim ==
    [][(pc = "settle" /\ pc' = "loop" /\ op.typed # {})
        => /\ db'[cur].error_message \in op.typed
           /\ db'[cur].retry_count = db[cur].retry_count + 1
           /\ ret' # "raised"]_vars

\* C14 (amended): a typed failure is never raised out of the orchestrator and
\* the run goes on with the next filing. An analysis failure other than
\* insufficient_text is recorded verbatim as error_message with retry_count + 1
\* and status failed; insufficient_text is a skip: status success,
\* error_message and retry_count untouched. An extraction failure of a document
\* fails the filing only if no document of it counted as a success; then
\* error_message is the summary built from the documents' failures (not the
\* typed code itself) and retry_count grows by 1; otherwise the filing is a
\* success and neither field changes.
C14_TypedOutcomesRecorded ==
    [][(pc = "settle" /\ pc' = "loop" /\ op.typed # {})
        => /\ ret' # "raised"
           /\ queue' = queue
           /\ LET old == db[cur]
                  new == db'[cur]
                  field == StatusField(StepOf(stage))
                  untouched == /\ new[field] = "success"
                               /\ new.error_message = old.error_message
                               /\ new.retry_count = old.retry_count
                  failed == new[field] = "failed" /\ new.retry_count = old.retry_count + 1
              IN CASE stage = "analyze" /\ op.typed = {"insufficient_text"} -> untouched
                   [] stage = "analyze" /\ op.typed # {"insufficient_text"} ->
                        failed /\ new.error_message \in op.typed
                   [] stage = "extract" /\ op.ok > 0 -> untouched
                   [] stage = "extract" /\ op.ok = 0 ->
                        /\ failed
                        /\ new.error_message = op.error
                        /\ new.error_message \notin op.typed
                        /\ Len(old.documents) = 1
                             => \E e \in op.typed :
                                  new.error_message = ExtractFailedMsg(1, e)]_vars

\* one filing failed analysis with a timeout, the other failed extraction
\* because its only document is encrypted
C14_Witness ==
    \E f, g \in DOMAIN db :
        /\ db[f].status_analyzed = "failed" /\ db[f].error_message = "timeout"
        /\ db[g].status_extracted = "failed"
        /\ db[g].error_message = "Document 1 failed: encrypted"

\* the call that has just returned
Called(fn) == call'.n = call.n + 1 /\ call'.fn = fn

\* C15: a call of mark_step_complete that returns has set status_<step> of the
\* named filing to the given status; with an error it has also set
\* error_message to that error and added exactly 1 to retry_count, without one
\* it has left both alone; nothing else of the row and no other row changed,
\* and all of it is committed by the one step.
C15_MarkStepComplete ==
    [][(Called("mark_step_complete") /\ call'.raised = NULL)
        => LET f == call'.filing_id
               field == StatusField(call'.step)
               after == [db[f] EXCEPT ![field] = call'.status]
           IN /\ f \in DOMAIN db /\ DOMAIN db' = DOMAIN db
              /\ db'[f][field] = call'.status
              /\ call'.error # NULL
                   => /\ db'[f].error_message = call'.error
                      /\ db'[f].retry_count = db[f].retry_count + 1
                      /\ db'[f] = [after EXCEPT !.error_message = call'.error,
                                                !.retry_count = @ + 1]
              /\ call'.error = NULL => db'[f] = after
              /\ \A g \in DOMAIN db \ {f} : db'[g] = db[g]
              /\ sess' = db']_vars

\* a filing has been failed twice through the function, with an error each time
C15_Witness ==
    /\ call.fn = "mark_step_complete" /\ call.raised = NULL /\ call.error = "boom"
    /\ call.status = "failed" /\ call.step = "emailed"
    /\ db[call.filing_id].status_emailed = "failed"
    /\ db[call.filing_id].error_message = "boom"
    /\ db[call.filing_id].retry_count = 2

\* C16: mark_step_complete raises when the step is not one of the five names of
\* VALID_STEPS (invalid-step error) and when the step is valid but no filing has
\* the id (not-found error); whenever it raises, the committed rows and the
\* session's view of them are what they were.
C16_MarkStepCompleteRejects ==
    [][Called("mark_step_complete")
        => /\ call'.step \notin VALID_STEPS => call'.raised = "ValueError: Invalid step"
           /\ (call'.step \in VALID_STEPS /\ call'.filing_id \notin DOMAIN db)
                => call'.raised = "ValueError: Filing not found"
           /\ call'.raised # NULL => (db' = db /\ sess' = sess)]_vars

\* both rejections, on a store that holds a filing the call could have changed
C16_Witness ==
    /\ call.fn = "mark_step_complete"
    /\ DOMAIN db # {}
    /\ \/ call.raised = "ValueError: Invalid step" /\ call.filing_id \in DOMAIN db
             /\ call.step = "notified" /\ call.error = "boom"
       \/ call.raised = "ValueError: Filing not found" /\ call.step = "downloaded"

\* C17: a call of create_filing that returns has inserted one row for the id:
\* status_scraped success, the four later statuses pending, retry_count 0,
\* error_message null; the rows that were there are unchanged.
C17_CreateFiling ==
    [][(Called("create_filing") /\ call'.raised = NULL)
        => LET f == call'.filing_id
           IN /\ f \notin DOMAIN db
              /\ DOMAIN db' = DOMAIN db \cup {f}
              /\ db'[f].status_scraped = "success"
              /\ db'[f].status_downloaded = "pending"
              /\ db'[f].status_extracted = "pending"
              /\ db'[f].status_analyzed = "pending"
              /\ db'[f].status_emailed = "pending"
              /\ db'[f].retry_count = 0
              /\ db'[f].error_message = NULL
              /\ \A g \in DOMAIN db : db'[g] = db[g]]_vars

\* a filing created next to one that has already failed a stage
C17_Witness ==
    /\ call.fn = "create_filing" /\ call.raised = NULL
    /\ \E g \in DOMAIN db \ {call.filing_id} : db[g].retry_count = 1

\* C18: create_filing for an id that already has a row raises the duplicate
\* error and leaves every row as it was, and _persist_filing for such an id (a
\* scraped batch carrying the id a second time) returns False and leaves every
\* row as it was: the row of an id is never replaced nor doubled.
C18_DuplicateRejected ==
    [][\A fn \in {"create_filing", "_persist_filing"} :
          (Called(fn) /\ call'.filing_id \in DOMAIN db)
            => /\ db' = db
               /\ sess' = sess
               /\ Cardinality(DOMAIN db') = Cardinality(DOMAIN db)
               /\ fn = "create_filing" => call'.raised = "IntegrityError"
               /\ fn = "_persist_filing" => call'.raised = NULL /\ call'.status = "False"]_vars

\* the duplicate arrives after the first row of the id has moved on
C18_Witness ==
    /\ call.fn \in {"create_filing", "_persist_filing"}
    /\ call.raised = "IntegrityError" \/ call.status = "False"
    /\ call.filing_id \in DOMAIN db
    /\ db[call.filing_id].status_downloaded = "success"

\* calls of extract_document made so far by the running per-item operation:
\* each returns a success or a typed failure
TierInvocations(o) == Cardinality(o.done) + o.bad

\* C19: when the extraction loop reaches a downloaded document whose sidecar
\* exists with content, it moves on to the next document without calling
\* extract_document (no tier runs), leaves the sidecar and the rest of the
\* directory as they are, and counts the document as a success; a filing with
\* such a document is reported as a success.
C19_ExtractionIdempotent ==
    [][/\ (/\ pc = "item" /\ pc' = "item" /\ stage = "extract"
           /\ idx <= Len(sess[cur].documents)
           /\ sess[cur].documents[idx].download_status = "success"
           /\ idx \in disk[cur].mds)
            => /\ idx' = idx + 1
               /\ TierInvocations(op') = TierInvocations(op)
               /\ op'.typed = op.typed
               /\ disk' = disk
               /\ op'.ok = op.ok + 1
       /\ (/\ pc = "item" /\ pc' = "settle" /\ stage = "extract"
           /\ \E i \in DOMAIN sess[cur].documents :
                i \in disk[cur].mds /\ i \notin op.done)
            => op'.success]_vars

\* a second run over a filing whose first document was extracted by a run that
\* then raised: the sidecar is there, the document was passed over and counted
C19_Witness ==
    /\ pc = "item" /\ stage = "extract" /\ idx = 2
    /\ 1 \in disk[cur].mds
    /\ op.ok = 1 /\ TierInvocations(op) = 0
    /\ sess[cur].documents[1].extraction_status = "pending"

C21_RepetitionBoundary ==
    (call.fn = "passes_quality_check.repetition" /\ call.returned
       /\ \A k \in 1..3 : call.s[k] # " ")
        => /\ call.repeats = 201 => ~call.passed
           /\ call.repeats = 200 => call.passed

\* C21 (amended): for every 3-character sequence s without whitespace, s
\* repeated 201 times fails the repetition check; s repeated 200 times passes it
\* when the three characters of s are not all the same, and fails it when they
\* are (the overlapping windows of 600 equal characters hold the one trigram
\* 598 times).
C21_RepetitionBoundaryDistinct ==
    (call.fn = "passes_quality_check.repetition" /\ call.returned
       /\ \A k \in 1..3 : call.s[k] # " ")
        => LET uniform == call.s[1] = call.s[2] /\ call.s[2] = call.s[3]
           IN /\ call.repeats = 201 => ~call.passed
              /\ (call.repeats = 200 /\ ~uniform) => call.passed
              /\ (call.repeats = 200 /\ uniform) => ~call.passed

\* "aba" two hundred times: every window occurs at most 200 times
C21_Witness ==
    /\ call.fn = "passes_quality_check.repetition" /\ call.returned /\ call.passed
    /\ call.s = <<"a", "b", "a">> /\ call.repeats = 200

\* a call of extract_document that has returned, on a document that opens, is
\* not encrypted and is within max_pages_for_extraction
Cascaded ==
    /\ call.fn = "extract_document" /\ call.returned
    /\ call.doc.opens /\ ~call.doc.needs_pass
    /\ call.doc.page_count <= call.settings.max_pages_for_extraction

\* tier k produced text and its gate accepted it
Accepted(k) == call.tiers[k].success /\ call.tiers[k].gate

\* C22: the tiers are called in the order primary, secondary, OCR; a call ends
\* the cascade as soon as a tier succeeds and passes its gate, and that tier's
\* output is what is returned; a success is never the output of a tier that
\* failed or whose gate rejected it.
C22_TierCascade ==
    Cascaded
        => /\ call.invoked \in {<<1>>, <<1, 2>>, <<1, 2, 3>>}
           /\ \A i \in DOMAIN call.invoked :
                Accepted(call.invoked[i]) <=> (call.result.success /\ i = Len(call.invoked))
           /\ call.result.success
                => LET k == call.invoked[Len(call.invoked)]
                   IN /\ call.result.method = Tiers[k]
                      /\ call.result.markdown = call.tiers[k].markdown
                      /\ Accepted(k)
           /\ (\E k \in DOMAIN call.invoked : Accepted(k)) => call.result.success

\* the primary tier produced text its gate rejected, the secondary one passed,
\* and OCR, which would have passed as well, was not called
C22_Witness ==
    /\ Cascaded
    /\ call.tiers[1].success /\ ~call.tiers[1].gate
    /\ Accepted(2) /\ Accepted(3)
    /\ call.doc.page_count <= call.settings.max_pages_for_ocr
    /\ call.invoked = <<1, 2>>
    /\ call.result.success /\ call.result.method = "pdfplumber"

\* C23: a document that cannot be opened, is encrypted, or has more pages than
\* max_pages_for_extraction makes extract_document return a failure whose error
\* is cannot_open (with the exception's text), encrypted, or too_many_pages
\* (with the page count) respectively, without calling any tier.
C23_PreChecks ==
    (call.fn = "extract_document" /\ call.returned)
        => /\ ~call.doc.opens
                => /\ ~call.result.success /\ call.invoked = <<>>
                   /\ call.result.error = "cannot_open: no such file"
           /\ (call.doc.opens /\ call.doc.needs_pass)
                => /\ ~call.result.success /\ call.invoked = <<>>
                   /\ call.result.error = "encrypted"
           /\ (/\ call.doc.opens /\ ~call.doc.needs_pass
               /\ call.doc.page_count > call.settings.max_pages_for_extraction)
                => /\ ~call.result.success /\ call.invoked = <<>>
                   /\ call.result.error
                        = "too_many_pages (" \o ToString(call.doc.page_count) \o ")"

\* three pages against a limit of two, every tier able to extract them
C23_Witness ==
    /\ call.fn = "extract_document" /\ call.returned
    /\ call.doc.opens /\ ~call.doc.needs_pass
    /\ call.doc.page_count = 3 /\ call.settings.max_pages_for_extraction = 2
    /\ \A k \in 1..3 : Accepted(k)
    /\ call.result.error = "too_many_pages (3)" /\ call.invoked = <<>>

\* C24: when neither tier 1 nor tier 2 passes, OCR is called exactly when
\* page_count <= max_pages_for_ocr; when no tier that was called passes, OCR
\* skipped or not, the result is a failure with error all_methods_failed and
\* the document's page_count.
C24_OcrLimitAndAllFailed ==
    (Cascaded /\ ~Accepted(1) /\ ~Accepted(2))
        => /\ (3 \in Range(call.invoked))
                <=> call.doc.page_count <= call.settings.max_pages_for_ocr
           /\ (3 \notin Range(call.invoked) \/ ~Accepted(3))
                => /\ ~call.result.success
                   /\ call.result.error = "all_methods_failed"
                   /\ call.result.page_count = call.doc.page_count

\* a document over the OCR limit that OCR could have read
C24_Witness ==
    /\ Cascaded /\ ~Accepted(1) /\ ~Accepted(2) /\ Accepted(3)
    /\ call.doc.page_count = 3 /\ call.settings.max_pages_for_ocr = 2
    /\ call.invoked = <<1, 2>>
    /\ call.result.error = "all_methods_failed" /\ call.result.page_count = 3

\* C25: in the analysis stage, a filing none of whose documents contributed
\* text, or for which the analysis primitive returned insufficient_text, is
\* settled as a skip: status_analyzed becomes success, the skipped counter
\* grows by one, nothing is counted as succeeded or failed, and retry_count
\* and error_message keep their values.
C25_AnalysisSkip ==
    [][(/\ pc = "settle" /\ stage = "analyze" /\ pc' = "loop"
        /\ \/ IncludedDocuments(sess[cur].documents) = {}
           \/ "insufficient_text" \in op.typed)
       => /\ db'[cur].status_analyzed = "success"
          /\ batch'.skipped = batch.skipped + 1
          /\ batch'.succeeded = batch.succeeded
          /\ batch'.failed = batch.failed
          /\ batch'.errors = batch.errors
          /\ db'[cur].retry_count = db[cur].retry_count
          /\ db'[cur].error_message = db[cur].error_message
          /\ db'[cur].analysis_json = db[cur].analysis_json]_vars

\* one analysis run skipped two filings: one without any text, one whose text
\* the primitive found insufficient
C25_Witness ==
    /\ pc = "loop" /\ stage = "analyze" /\ batch.skipped = 2 /\ batch.succeeded = 0
    /\ \E f, g \in DOMAIN db :
         /\ db[f].status_analyzed = "success" /\ IncludedDocuments(db[f].documents) = {}
         /\ db[g].status_analyzed = "success" /\ IncludedDocuments(db[g].documents) # {}
         /\ db[g].analysis_json = NULL

\* C26: after a structured analysis success, a failure to write analysis.json
\* to the filing's directory never fails the filing: whenever the status write
\* itself goes through, the filing is committed with status_analyzed = success
\* and analysis_json stored, retry_count and error_message unchanged, and it is
\* counted as succeeded.
C26_SidecarNeverFails ==
    [][(/\ pc = "settle" /\ stage = "analyze" /\ pc' = "loop"
        /\ op.done # {} /\ ~disk[cur].analysis)
       => /\ db'[cur].status_analyzed = "success"
          /\ db'[cur].analysis_json # NULL
          /\ db'[cur].retry_count = db[cur].retry_count
          /\ db'[cur].error_message = db[cur].error_message
          /\ batch'.succeeded = batch.succeeded + 1
          /\ batch'.failed = batch.failed]_vars

\* a filing with a directory on disk was analysed and committed although its
\* analysis.json was never written
C26_Witness ==
    /\ pc = "loop" /\ stage = "analyze" /\ batch.succeeded = 1 /\ batch.failed = 0
    /\ \E f \in DOMAIN db :
         /\ db[f].status_analyzed = "success" /\ db[f].analysis_json # NULL
         /\ HasFilingDir(db[f].documents) /\ disk[f].dir /\ ~disk[f].analysis

\* the retry ceiling the orchestrator of stage s passes to its eligibility query
Ceiling(s) ==
    CASE s = "download" -> DownloadMaxRetries
      [] s = "extract" -> ExtractMaxRetries
      [] s = "analyze" -> AnalyzeMaxRetries

\* filing f has failed some stage and its retry_count has reached the ceiling
\* of that stage's orchestrator
Removed(f) ==
    \E s \in Stages :
        db[f][StatusField(StepOf(s))] = "failed" /\ db[f].retry_count >= Ceiling(s)

C28_FailedHasError ==
    \A f \in DOMAIN db :
        (\E step \in VALID_STEPS : db[f][StatusField(step)] = "failed")
            => /\ db[f].error_message \notin {NULL, ""}
               /\ db[f].retry_count >= 1

\* a filing marked failed by the recovery handler of the download stage, and
\* another one marked failed by the normal path of the analysis stage
C28_Witness ==
    \E f, g \in DOMAIN db :
        /\ db[f].status_downloaded = "failed"
        /\ db[f].error_message = UnexpectedMsg("download") /\ db[f].retry_count = 1
        /\ db[g].status_analyzed = "failed"
        /\ db[g].error_message \in AnalysisErrors /\ db[g].retry_count >= 1

\* C29: download_pdf runs the fetch at most 3 times for one document; it runs
\* it again only after an HTTP-status or transport error (an HTML response, an
\* oversized body and any other error make it return a failed result at once),
\* and when the third run ends in such an error it returns a failed
\* DownloadResult and raises nothing.
C29_DownloadPdfRetry ==
    [][call.fn = "download_pdf" =>
         LET o == call.outcomes[call.attempts + 1]
             transient == o \in {"http_status_error", "transport_error"}
         IN /\ call'.attempts = call.attempts + 1
            /\ call'.attempts <= 3
            /\ ~call'.returned <=> (transient /\ call'.attempts < 3)
            /\ call'.raised = NULL
            /\ call'.returned => /\ call'.result.success <=> (o = "ok")
                                 /\ ~call'.result.success => call'.result.error # NULL
            /\ (transient /\ call'.attempts = 3)
                   => call'.result.error = "Download failed after retries: " \o o]_vars

\* three runs, each ended by a transient error, and a failed result returned
C29_Witness ==
    /\ call.fn = "download_pdf" /\ call.returned /\ call.attempts = 3 /\ call.raised = NULL
    /\ call.outcomes[1] = "http_status_error" /\ call.outcomes[2] = "transport_error"
    /\ call.outcomes[3] = "transport_error" /\ call.outcomes[4] = "ok"
    /\ ~call.result.success
    /\ call.result.error = "Download failed after retries: transport_error"

\* C30: while the documents of one filing are downloaded, the politeness delay
\* is taken after each successfully downloaded document except the last one:
\* n - 1 delays when all n documents succeed, none after document n, and none
\* after a document that failed (the delays taken before a failure at document
\* k are the k - 1 that followed the documents before it).
C30_PolitenessDelay ==
    [][(pc = "item" /\ stage = "download") =>
         LET n == Len(sess[cur].documents)
         IN /\ pc' = "item" => op'.waits = op.waits + (IF idx < n THEN 1 ELSE 0)
            /\ pc' = "settle" => /\ op'.waits = op.waits
                                 /\ (op'.success /\ n > 0) => op'.waits = n - 1
                                 /\ ~op'.success => op'.waits = idx - 1]_vars

\* both documents of a filing were downloaded with one delay between them
C30_Witness ==
    /\ pc = "settle" /\ stage = "download" /\ op.success
    /\ Len(sess[cur].documents) = 2 /\ op.done = {1, 2} /\ op.waits = 1

\* C31: a transition recorded without an error leaves the filing's retry_count
\* and error_message as they were (a later success does not clear the last
\* error), and every transition leaves the statuses of the filing's other
\* stages and the statuses of every other filing as they were.
C31_TransitionFrame ==
    [][(Called("mark_step_complete") /\ call'.raised = NULL)
        => LET f == call'.filing_id
           IN /\ call'.error = NULL
                   => /\ db'[f].retry_count = db[f].retry_count
                      /\ db'[f].error_message = db[f].error_message
              /\ \A step \in VALID_STEPS \ {call'.step} :
                     db'[f][StatusField(step)] = db[f][StatusField(step)]
              /\ \A g \in DOMAIN db \ {f} :
                     /\ g \in DOMAIN db'
                     /\ \A step \in VALID_STEPS :
                            db'[g][StatusField(step)] = db[g][StatusField(step)]]_vars

\* a success recorded for one stage of a filing whose other stage had failed:
\* the failure, its message and its count are still there
C31_Witness ==
    /\ call.fn = "mark_step_complete" /\ call.raised = NULL /\ call.error = NULL
    /\ call.status = "success" /\ call.step = "extracted"
    /\ db[call.filing_id].status_extracted = "success"
    /\ db[call.filing_id].status_downloaded = "failed"
    /\ db[call.filing_id].error_message = "boom"
    /\ db[call.filing_id].retry_count = 1

\* how often each 3-character window of the text occurs in its first 10,000
\* characters, counted window by window
WindowCounts(markdown) ==
    LET sample == Sample(markdown)
        starts == 1..(Len(sample) - 2)
        windows == {SubSeq(sample, i, i + 2) : i \in starts}
    IN [g \in windows |-> Cardinality({i \in starts : SubSeq(sample, i, i + 2) = g})]

\* C32: the repetition check rejects the output whenever any 3-character
\* window of the first 10,000 characters that holds a non-whitespace character
\* occurs more than 200 times, whatever the frequencies of the other windows,
\* whitespace-only ones included.
C32_AnyWindowRejects ==
    (call.fn = "passes_quality_check.repetition_padded" /\ call.returned)
        => LET counts == WindowCounts(Padded(call.pad, call.s, call.repeats))
           IN (\E g \in DOMAIN counts :
                  /\ counts[g] > 200
                  /\ \E k \in 1..3 : g[k] \notin Whitespace)
                 => ~call.passed

\* C33: the download operation fetches the documents of a filing one at a time
\* in their stored order (those fetched so far are always documents 1..idx-1)
\* and aborts at the first document that fails: when document k fails the
\* operation returns at once, and documents k+1..n are not fetched in that run.
C33_StoredOrderAbortAtFirstFailure ==
    [][(stage = "download" /\ pc \in {"item", "settle"})
        => LET n == Len(sess[cur].documents)
           IN /\ op.done = 1..(idx - 1)
              /\ cur \notin Range(queue)
              /\ (pc = "item" /\ pc' = "item")
                    => /\ idx <= n /\ idx' = idx + 1
                       /\ op'.done = op.done \cup {idx}
              /\ (pc = "item" /\ pc' = "settle" /\ ~op'.success)
                    => /\ idx <= n /\ idx' = idx
                       /\ op'.done = op.done
              /\ pc = "settle" => (pc' # "item" /\ op'.done = {})]_vars

\* the first of two documents failed: the operation has returned with nothing
\* fetched and nothing left on disk
C33_Witness ==
    /\ pc = "settle" /\ stage = "download" /\ ~op.success /\ op.error # NULL
    /\ idx = 1 /\ Len(sess[cur].documents) = 2
    /\ op.done = {} /\ disk[cur].pdfs = {}

\* filings the batch has accounted for
Settled(b) == b.succeeded + b.failed + b.skipped

\* C34: at every point of a run attempted >= succeeded + failed + skipped (the
\* difference is the filing in progress), and when a run that met no fatal
\* error reaches its return, attempted = succeeded + failed + skipped and
\* errors has exactly one entry per failed filing.
C34_BatchCounters ==
    /\ batch.attempted >= Settled(batch)
    /\ batch.attempted =
          Settled(batch) + (IF pc \in {"item", "settle", "except"} THEN 1 ELSE 0)
    /\ (pc = "loop" /\ queue = <<>> /\ Synthetic(batch) = {})
          => /\ batch.attempted = Settled(batch)
             /\ Len(batch.errors) = batch.failed

\* an analysis run at its return: two filings attempted, one skipped, one
\* failed through the recovery handler
C34_Witness ==
    /\ pc = "loop" /\ queue = <<>> /\ stage = "analyze" /\ Synthetic(batch) = {}
    /\ batch.attempted = 2 /\ batch.succeeded = 0 /\ batch.failed = 1 /\ batch.skipped = 1
    /\ Len(batch.errors) = 1 /\ batch.errors[1][2] = "unexpected error"

\* this step commits a failed status of the running stage for filing f
ErrorRecorded(f) ==
    /\ f = cur /\ pc \in {"settle", "except"}
    /\ db'[f] # db[f]
    /\ db'[f][StatusField(StepOf(stage))] = "failed"

\* filing f is in the result of some stage's eligibility query
Selectable(f) ==
    \/ f \in get_filings_for_download(db, Ceiling("download"))
    \/ f \in get_filings_for_extraction(db, Ceiling("extract"))
    \/ f \in get_filings_for_analysis(db, Ceiling("analyze"))

\* retry_count starts at 0, grows by one with each error transition committed
\* for the filing, whatever the stage, and by nothing else; a filing whose
\* count has reached the common ceiling M is selected by no stage, so the
\* count never exceeds M
SharedCounter ==
    \A f \in DOMAIN db' :
        /\ f \notin DOMAIN db => db'[f].retry_count = 0
        /\ f \in DOMAIN db
             => /\ db'[f].retry_count = db[f].retry_count + (IF ErrorRecorded(f) THEN 1 ELSE 0)
                /\ db[f].retry_count >= max_retry_count => ~Selectable(f)
        /\ db'[f].retry_count <= max_retry_count

Quiescent == \A f \in DOMAIN db : ~Selectable(f)

\* a step that commits the outcome of an attempt: the status write of the
\* normal path or of the recovery handler going through
Recorded == (SettleCommit \/ Recover) /\ db' # db

C37_DownloadStateAgrees ==
    \A f \in DOMAIN db : \A i \in DOMAIN db[f].documents :
        LET d == db[f].documents[i]
        IN /\ db[f].status_downloaded = "success"
                => (d.download_status = "success" /\ d.local_path # NULL)
           /\ d.local_path # NULL => d.download_status = "success"

\* a filing of two documents downloaded at the second attempt, the first
\* attempt having failed and reset its documents
C37_Witness ==
    \E f \in DOMAIN db :
        /\ db[f].status_downloaded = "success" /\ db[f].retry_count = 1
        /\ db[f].error_message = DocFailedMsg(2)
        /\ Len(db[f].documents) = 2
        /\ \A i \in 1..2 : Downloaded(db[f].documents[i])

\* C38: in every committed state, a filing that has documents and
\* status_extracted = success has at least one document row with
\* extraction_status = success (so that a later analysis finds text), also
\* when an earlier attempt was rolled back after a sidecar had been written.
C38_ExtractedHasText ==
    \A f \in DOMAIN db :
        (Len(db[f].documents) > 0 /\ db[f].status_extracted = "success")
            => ExtractedRows(db[f].documents) # {}

\* C39: the analysis result and the status are committed together. In every
\* committed state analysis_json is non-null only where status_analyzed is
\* success; a filing the analysis orchestrator counts as succeeded (not
\* skipped) has a non-null analysis_json; and an attempt that is counted as
\* failed (typed failure or rolled back) leaves every analysis_json unchanged.
C39_ResultWithStatus ==
    [][ /\ \A f \in DOMAIN db' :
             db'[f].analysis_json # NULL => db'[f].status_analyzed = "success"
        /\ (stage = "analyze" /\ pc = "settle" /\ batch'.succeeded = batch.succeeded + 1)
             => db'[cur].analysis_json # NULL
        /\ (stage = "analyze" /\ pc \in {"settle", "except"} /\ batch'.failed = batch.failed + 1)
             => \A f \in DOMAIN db : db'[f].analysis_json = db[f].analysis_json
      ]_vars

\* an analysis run has stored one filing's result and counted another filing,
\* whose attempt raised after the result had been set in the session, as failed
C39_Witness ==
    /\ stage = "analyze"
    /\ batch.succeeded >= 1
    /\ batch.failed >= 1
    /\ \E f \in DOMAIN db :
         db[f].analysis_json # NULL /\ db[f].status_analyzed = "success"
    /\ \E f \in DOMAIN db :
         /\ db[f].analysis_json = NULL
         /\ db[f].status_analyzed = "failed"
         /\ db[f].error_message = "Unexpected error"
         /\ disk[f].analysis

====
